---------------------------- MODULE Spec2Model ----------------------------
(***************************************************************************)
(* Model of backend/app.py: the /predict pipeline of the diabetes         *)
(* prediction API (request parsing, validate_input, scaling and           *)
(* classification by the loaded artifacts, confidence bucketing and        *)
(* response assembly).                                                     *)
(*                                                                         *)
(* Numbers.  Field values are fixed-point numbers counted in 1/Unit        *)
(* (hundredths: 0.05 is 5, 33.5 is 3350).  Probabilities are counted in    *)
(* 1/Scale (1e-5: 0.79996 is 79996), one digit finer than the 4-decimal    *)
(* rounding of the response.                                               *)
(***************************************************************************)
EXTENDS Integers, Sequences, FiniteSets, TLC

Unit  == 100
Scale == 100000

\* ------------------------------------------------------------------ bounds
\* Number of fields of a payload that may carry an arbitrary JSON value at
\* once (the others carry the example value, are absent, or are junk).
MaxRich == 1
\* Number of predict requests in flight in the concurrent specification.
NumRequests == 2

\* ---------------------------------------------------------- FIELD_RULES
Fields ==
    { "Pregnancies", "Glucose", "BloodPressure", "SkinThickness",
      "Insulin", "BMI", "DiabetesPedigreeFunction", "Age" }

\* The ordered feature-name list loaded from feature_names.pkl.
FeatureNamesInit ==
    << "Pregnancies", "Glucose", "BloodPressure", "SkinThickness",
       "Insulin", "BMI", "DiabetesPedigreeFunction", "Age" >>

\* min and max in 1/Unit; type is the Python constructor of the rule.
FieldRulesInit ==
    [ Pregnancies              |-> [min |-> 0,    max |-> 2000,  type |-> "float"],
      Glucose                  |-> [min |-> 5000, max |-> 25000, type |-> "float"],
      BloodPressure            |-> [min |-> 3000, max |-> 15000, type |-> "float"],
      SkinThickness            |-> [min |-> 0,    max |-> 10000, type |-> "float"],
      Insulin                  |-> [min |-> 0,    max |-> 90000, type |-> "float"],
      BMI                      |-> [min |-> 1000, max |-> 7000,  type |-> "float"],
      DiabetesPedigreeFunction |-> [min |-> 5,    max |-> 250,   type |-> "float"],
      Age                      |-> [min |-> 1800, max |-> 10000, type |-> "int"] ]

\* ------------------------------------------------------- JSON values
\* A value of a payload key, as request.get_json hands it to the code:
\*   absent   the key is not in the object        (data.get gives None)
\*   null     JSON null                           (None)
\*   int      a JSON number without fraction/exponent (Python int), v
\*   float    a finite JSON number with a fraction   (Python float), v
\*   nan, inf NaN, and Infinity or an overflowing literal such as 1e999
\*   bigint   an integer literal beyond the float range (e.g. 400 digits)
\*   strint   a string holding an integer literal, "33"
\*   strdec   a string holding a decimal literal, "33.5" or "33.0"
\*   strjunk  a string that is no number
\*   bool     true / false (v is Unit or 0)
\*   list     an array or a nested object
Val(k, v) == [k |-> k, v |-> v]
Absent == Val("absent", 0)

\* A coerced Python number: finite (v), nan, inf, or an int beyond every range.
Ok(t, v)  == [r |-> "ok", t |-> t, v |-> v]
Raise(e)  == [r |-> e, t |-> "fin", v |-> 0]

\* float(value)
FloatCoerce(x) ==
    CASE x.k \in {"int", "float", "strint", "strdec", "bool"} -> Ok("fin", x.v)
      [] x.k = "nan"     -> Ok("nan", 0)
      [] x.k = "inf"     -> Ok("inf", 0)
      [] x.k = "bigint"  -> Raise("OverflowError")
      [] x.k = "strjunk" -> Raise("ValueError")
      [] OTHER           -> Raise("TypeError")

\* Truncation toward zero of a fixed-point number to a whole number.
Trunc(v) == IF v >= 0 THEN (v \div Unit) * Unit ELSE -(((-v) \div Unit) * Unit)

\* A faulty variant of int(value): an int that refuses every Python float, whole or not.
IntCoerceStrict(x) ==
    CASE x.k \in {"int", "strint", "bool"} -> Ok("fin", x.v)
      [] x.k = "bigint"  -> Ok("big", 0)
      [] x.k \in {"nan", "strdec", "strjunk"} -> Raise("ValueError")
      [] OTHER           -> Raise("TypeError")

\* int(value)
IntCoerce(x) ==
    CASE x.k \in {"int", "strint", "bool"} -> Ok("fin", x.v)
      [] x.k = "float"   -> Ok("fin", Trunc(x.v))
      [] x.k = "bigint"  -> Ok("big", 0)
      [] x.k = "inf"     -> Raise("OverflowError")
      [] x.k \in {"nan", "strdec", "strjunk"} -> Raise("ValueError")
      [] OTHER           -> Raise("TypeError")

\* rule["type"](value)
Coerce(rule, x) == IF rule.type = "int" THEN IntCoerce(x) ELSE FloatCoerce(x)

\* A faulty variant of the range check: only the lower bound is compared.
InRangeLowerOnly(rule, c) == c.t = "fin" /\ rule.min <= c.v

\* rule["min"] <= value <= rule["max"]   (false for nan, inf and huge ints)
InRange(rule, c) == c.t = "fin" /\ rule.min <= c.v /\ c.v <= rule.max

\* One error string: the field it names and which of the three messages it is.
Err(field, reason) == [field |-> field, reason |-> reason]

\* The loop of validate_input from field number i on, with the errors and
\* the vector accumulated so far.  An exception that the try does not catch
\* (OverflowError) leaves the loop and the function.
RECURSIVE ValidateFrom(_, _, _, _, _, _)
ValidateFrom(rules, names, data, i, errors, vector) ==
    IF i > Len(names)
    THEN [exc |-> "none", errors |-> errors,
          hasVector |-> (errors = << >>),
          vector |-> IF errors = << >> THEN vector ELSE << >>]
    ELSE LET field == names[i]
             rule  == rules[field]
             value == data[field]
             c     == Coerce(rule, value)
         IN  IF value.k \in {"absent", "null"}
             THEN ValidateFrom(rules, names, data, i + 1,
                               Append(errors, Err(field, "required")), vector)
             ELSE IF c.r \in {"ValueError", "TypeError"}
             THEN ValidateFrom(rules, names, data, i + 1,
                               Append(errors, Err(field, "number")), vector)
             ELSE IF c.r # "ok"
             THEN [exc |-> c.r, errors |-> errors, hasVector |-> FALSE,
                   vector |-> << >>]
             ELSE IF ~InRange(rule, c)
             THEN ValidateFrom(rules, names, data, i + 1,
                               Append(errors, Err(field, "between")), vector)
             ELSE ValidateFrom(rules, names, data, i + 1, errors,
                               Append(vector, c.v))

\* validate_input(data) -> (feature_vector, errors)
validate_input(rules, names, data) ==
    ValidateFrom(rules, names, data, 1, << >>, << >>)


\* ------------------------------------------------------ loaded artifacts
\* scaler.pkl and model.pkl are opaque fitted artifacts.  They are modelled
\* as deterministic functions of their argument and of the loaded object:
\* the scaler centres each feature on a fitted mean; the classifier is
\* described by the label `c` and the positive-class probability `p` it
\* gives at or below the mean glucose (above it, it gives the opposite
\* label and 1 - p), and by whether it raises there (`fault`).
ScalerInit == << 400, 12100, 6900, 2100, 8000, 3200, 47, 3300 >>

\* The probabilities (in 1/Scale) a loaded classifier may answer with; none
\* lies exactly half-way between two 4-decimal numbers.
ProbSet ==
    { 0, 10000, 20000, 20004, 40000, 40004, 50000, 59990, 59996, 60000,
      79990, 79996, 80000, 83000, 100000 }

Engines == [p : ProbSet, c : {0, 1}, fault : BOOLEAN]

\* scaler.transform(feature_vector.reshape(1, -1))
transform(sc, X) == [i \in 1..Len(X) |-> X[i] - sc[i]]

AboveMean(S) == S[2] > 0

\* model.predict(scaled)[0]
predict_class(m, S) == IF AboveMean(S) THEN 1 - m.c ELSE m.c

\* model.predict_proba(scaled)[0][1]
predict_proba(m, S) == IF AboveMean(S) THEN Scale - m.p ELSE m.p

\* Whether the engine raises on this input.
engine_raises(m, S) == m.fault /\ AboveMean(S)

\* ------------------------------------------------- confidence bucket
HighThreshold     == 80000
ModerateThreshold == 60000

\* A faulty variant of confidence_pct: the positive-class probability whatever the label.
ConfidencePctRaw(cls, p) == p

\* confidence_pct = proba if pred_class == 1 else (1 - proba)
ConfidencePct(cls, p) == IF cls = 1 THEN p ELSE Scale - p

\* A faulty variant of the bucket chain: thresholds compared with > instead of >=.
ConfidenceLabelStrict(pct) ==
    IF pct > HighThreshold THEN "High"
    ELSE IF pct > ModerateThreshold THEN "Moderate"
    ELSE "Low"

\* The if / elif / else chain over confidence_pct.
ConfidenceLabel(pct) ==
    IF pct >= HighThreshold THEN "High"
    ELSE IF pct >= ModerateThreshold THEN "Moderate"
    ELSE "Low"

\* round(x, 4) of a number counted in 1/Scale that is no exact tie.
Round4(x) == ((x + 5) \div 10) * 10

\* ------------------------------------------------------ request bodies
\* What the client sent: nothing, bytes that are not JSON, a JSON value that
\* is no object, or an object (its eight known keys, and whether it holds
\* any other key).
AllAbsent == [f \in Fields |-> Absent]
Scalar(kind) == [kind |-> kind, fields |-> AllAbsent, extra |-> FALSE]
Object(fields, extra) == [kind |-> "object", fields |-> fields, extra |-> extra]

\* request.get_json(silent=True) is None
IsNone(b) == b.kind \in {"absent", "invalid", "null"}

\* Python truth of the parsed body:  `not body` is its negation.
Truthy(b) ==
    CASE b.kind = "object" -> b.extra \/ (\E f \in Fields : b.fields[f] # Absent)
      [] b.kind \in {"true", "number", "string", "list"} -> TRUE
      [] OTHER -> FALSE

\* Whether the parsed body has a .get method (is a dict).
IsDict(b) == b.kind = "object"

\* feature_vector.tolist(): Python floats, which jsonify writes as JSON numbers.
ToList(vector) == [i \in 1..Len(vector) |-> Val("float", vector[i])]

Min(a, b) == IF a <= b THEN a ELSE b

\* dict(zip(feature_names, feature_vector.tolist()))
ZipDict(names, list) ==
    [f \in {names[i] : i \in 1..Min(Len(names), Len(list))} |->
        list[CHOOSE i \in 1..Min(Len(names), Len(list)) :
                names[i] = f /\ \A j \in (i+1)..Min(Len(names), Len(list)) : names[j] # f]]

\* ---------------------------------------------------------- responses
NoResponse ==
    [status |-> 0, kind |-> "none", errors |-> << >>, prediction |-> "",
     diabetic |-> FALSE, probability |-> 0, confidence |-> "",
     confidence_score |-> 0, model |-> "", input_features |-> AllAbsent]

\* jsonify({"error": "Request body must be JSON."}), 400
MalformedResponse == [NoResponse EXCEPT !.status = 400, !.kind = "error"]

\* jsonify({"errors": errors}), 422
ErrorsResponse(errs) ==
    [NoResponse EXCEPT !.status = 422, !.kind = "errors", !.errors = errs]

\* An exception that leaves predict: the serving layer answers 500.
ExceptionResponse == [NoResponse EXCEPT !.status = 500, !.kind = "exception"]

\* The jsonify({...}), 200 of predict.
PredictionResponse(names, metrics, vector, cls, p, pct, label) ==
    [status |-> 200, kind |-> "prediction", errors |-> << >>,
     prediction |-> IF cls = 1 THEN "Diabetic" ELSE "Not Diabetic",
     diabetic |-> (cls # 0),
     probability |-> Round4(p),
     confidence |-> label,
     confidence_score |-> Round4(pct),
     model |-> metrics.best_model,
     input_features |-> ZipDict(names, ToList(vector))]

MetricsInit == [best_model |-> "Random Forest"]

\* ------------------------------------------------------------ inputs
\* The valid example payload.
ExampleFields ==
    [ Pregnancies              |-> Val("int", 200),
      Glucose                  |-> Val("int", 12000),
      BloodPressure            |-> Val("int", 7000),
      SkinThickness            |-> Val("int", 2000),
      Insulin                  |-> Val("int", 8000),
      BMI                      |-> Val("float", 2500),
      DiabetesPedigreeFunction |-> Val("float", 50),
      Age                      |-> Val("int", 3300) ]

\* A JSON number: written without a fraction when it is whole.
Num(v) == IF v % Unit = 0 THEN Val("int", v) ELSE Val("float", v)

\* The values tried for one field: its bounds, just outside them, fractions,
\* strings, and the JSON values that are no finite number.
RichValues(f) ==
    LET rule == FieldRulesInit[f]
        ex   == ExampleFields[f].v
    IN  { Absent, Val("null", 0),
          Num(rule.min), Num(rule.max),
          Val("float", rule.min - 1), Val("float", rule.max + 1),
          Val("float", rule.min + (Unit \div 2)), Val("float", rule.max + (Unit \div 2)),
          Val("float", ex + (Unit \div 2)), Val("float", Trunc(ex)),
          Val("int", Trunc(rule.max) + Unit),
          Val("strint", Trunc(ex)), Val("strdec", ex + (Unit \div 2)),
          Val("strdec", Trunc(ex)), Val("strjunk", 0),
          Val("nan", 0), Val("inf", 0), Val("bigint", 0),
          Val("bool", Unit), Val("list", 0) }

\* The example with at most n fields replaced by one of their rich values.
RECURSIVE RichFields(_)
RichFields(n) ==
    IF n = 0 THEN { ExampleFields }
    ELSE LET prev == RichFields(n - 1)
         IN  prev \cup UNION { { [fl EXCEPT ![f] = v] : fl \in prev, v \in RichValues(f) } :
                                  f \in Fields }

\* Every field independently the example value, absent, or a junk string.
PatternFields ==
    { [f \in Fields |-> CASE pat[f] = "ex" -> ExampleFields[f]
                          [] pat[f] = "absent" -> Absent
                          [] OTHER -> Val("strjunk", 0)] :
        pat \in [Fields -> {"ex", "absent", "junk"}] }

NonObjectBodies ==
    { Scalar(k) : k \in { "absent", "invalid", "null", "false", "zero", "emptystr",
                          "emptylist", "true", "number", "string", "list" } }

\* Bodies of the validation specification: objects only.
BodiesV ==
    { Object(fl, FALSE) : fl \in PatternFields \cup RichFields(MaxRich) }
      \cup { Object(AllAbsent, TRUE) }

\* Bodies of the request specification: every kind of body; objects with at
\* most one field off the example.
BodiesP ==
    NonObjectBodies
      \cup { Object(fl, FALSE) : fl \in RichFields(1) }
      \cup { Object(AllAbsent, x) : x \in BOOLEAN }

\* Bodies of the concurrent specification.
BodiesC ==
    { Scalar("invalid"), Object(AllAbsent, FALSE),
      Object(ExampleFields, FALSE),
      Object([ExampleFields EXCEPT !.Glucose = Val("int", 25000)], FALSE),
      Object([ExampleFields EXCEPT !.Glucose = Absent, !.Age = Val("strdec", 3350)], FALSE),
      Object([ExampleFields EXCEPT !.Age = Val("inf", 0)], FALSE) }

EnginesV == { [p |-> 83000, c |-> 1, fault |-> ft] : ft \in BOOLEAN }
EnginesC == { [p |-> 83000, c |-> 1, fault |-> FALSE], [p |-> 10000, c |-> 0, fault |-> TRUE] }

\* ------------------------------------------------------------- state
Requests == 1..NumRequests

VARIABLES
    \* module globals, set when the module is loaded
    FIELD_RULES, feature_names, model, scaler, metrics_data,
    \* per request: where predict stands, and its locals
    pc, body, feature_vector, errors, scaled, pred_class, proba,
    confidence_pct, confidence_label, response,
    \* history, per request: the steps completed, the vectors handed to the
    \* scaler, whether the request is a re-submission of the echoed input, and
    \* the vector of the request it re-submits
    steps, engine_calls, resubmitted, first_vector

shared == << FIELD_RULES, feature_names, model, scaler, metrics_data >>
locals == << pc, body, feature_vector, errors, scaled, pred_class, proba,
             confidence_pct, confidence_label, response >>
history == << steps, engine_calls, resubmitted, first_vector >>
vars == << shared, locals, history >>

InitWith(engines) ==
    /\ FIELD_RULES = FieldRulesInit
    /\ feature_names = FeatureNamesInit
    /\ model \in engines
    /\ scaler = ScalerInit
    /\ metrics_data = MetricsInit
    /\ pc = [r \in Requests |-> "start"]
    /\ body = [r \in Requests |-> Scalar("absent")]
    /\ feature_vector = [r \in Requests |-> << >>]
    /\ errors = [r \in Requests |-> << >>]
    /\ scaled = [r \in Requests |-> << >>]
    /\ pred_class = [r \in Requests |-> 0]
    /\ proba = [r \in Requests |-> 0]
    /\ confidence_pct = [r \in Requests |-> 0]
    /\ confidence_label = [r \in Requests |-> ""]
    /\ response = [r \in Requests |-> NoResponse]
    /\ steps = [r \in Requests |-> << >>]
    /\ engine_calls = [r \in Requests |-> << >>]
    /\ resubmitted = [r \in Requests |-> FALSE]
    /\ first_vector = [r \in Requests |-> << >>]

\* ------------------------------------------------------------ predict
\* body = request.get_json(silent=True); if not body: return 400
Handle(r, b) ==
    /\ body' = [body EXCEPT ![r] = b]
    /\ steps' = [steps EXCEPT ![r] = << "received" >>]
    /\ engine_calls' = [engine_calls EXCEPT ![r] = << >>]
    /\ feature_vector' = [feature_vector EXCEPT ![r] = << >>]
    /\ errors' = [errors EXCEPT ![r] = << >>]
    /\ IF IsNone(b) \/ ~Truthy(b)
       THEN /\ response' = [response EXCEPT ![r] = MalformedResponse]
            /\ pc' = [pc EXCEPT ![r] = "done"]
       ELSE /\ response' = [response EXCEPT ![r] = NoResponse]
            /\ pc' = [pc EXCEPT ![r] = "received"]
    /\ UNCHANGED << shared, scaled, pred_class, proba, confidence_pct, confidence_label >>

\* A client posts a body to /predict.
Receive(r, bodies) ==
    /\ pc[r] = "start"
    /\ \E b \in bodies : Handle(r, b)
    /\ UNCHANGED << resubmitted, first_vector >>

\* The client posts the input_features of a successful response again.
Resubmit(r) ==
    /\ pc[r] = "done"
    /\ response[r].kind = "prediction"
    /\ ~resubmitted[r]
    /\ resubmitted' = [resubmitted EXCEPT ![r] = TRUE]
    /\ first_vector' = [first_vector EXCEPT ![r] = feature_vector[r]]
    /\ Handle(r, Object(response[r].input_features, FALSE))

\* feature_vector, errors = validate_input(body); if errors: return 422
Validate(r) ==
    /\ pc[r] = "received"
    /\ IF ~IsDict(body[r])
       THEN \* body.get raises AttributeError
            /\ response' = [response EXCEPT ![r] = ExceptionResponse]
            /\ pc' = [pc EXCEPT ![r] = "done"]
            /\ UNCHANGED << feature_vector, errors, steps >>
       ELSE LET res == validate_input(FIELD_RULES, feature_names, body[r].fields)
            IN  IF res.exc # "none"
                THEN /\ response' = [response EXCEPT ![r] = ExceptionResponse]
                     /\ pc' = [pc EXCEPT ![r] = "done"]
                     /\ UNCHANGED << feature_vector, errors, steps >>
                ELSE /\ feature_vector' = [feature_vector EXCEPT ![r] = res.vector]
                     /\ errors' = [errors EXCEPT ![r] = res.errors]
                     /\ steps' = [steps EXCEPT ![r] = Append(@, "validated")]
                     /\ IF res.errors # << >>
                        THEN /\ response' = [response EXCEPT ![r] = ErrorsResponse(res.errors)]
                             /\ pc' = [pc EXCEPT ![r] = "done"]
                        ELSE /\ pc' = [pc EXCEPT ![r] = "validated"]
                             /\ UNCHANGED response
    /\ UNCHANGED << shared, body, scaled, pred_class, proba, confidence_pct,
                    confidence_label, engine_calls, resubmitted, first_vector >>

\* A faulty variant of the scoring step: scaler.fit_transform instead of
\* scaler.transform, which re-fits the shared scaler on the request's vector.
ScoreRefit(r) ==
    /\ pc[r] = "validated"
    /\ engine_calls' = [engine_calls EXCEPT ![r] = Append(@, feature_vector[r])]
    /\ scaler' = feature_vector[r]
    /\ LET S == transform(scaler', feature_vector[r])
       IN  IF engine_raises(model, S)
           THEN /\ response' = [response EXCEPT ![r] = ExceptionResponse]
                /\ pc' = [pc EXCEPT ![r] = "done"]
                /\ UNCHANGED << scaled, pred_class, proba, steps >>
           ELSE /\ scaled' = [scaled EXCEPT ![r] = S]
                /\ pred_class' = [pred_class EXCEPT ![r] = predict_class(model, S)]
                /\ proba' = [proba EXCEPT ![r] = predict_proba(model, S)]
                /\ steps' = [steps EXCEPT ![r] = Append(@, "scored")]
                /\ pc' = [pc EXCEPT ![r] = "scored"]
                /\ UNCHANGED response
    /\ UNCHANGED << FIELD_RULES, feature_names, model, metrics_data, body,
                    feature_vector, errors, confidence_pct, confidence_label,
                    resubmitted, first_vector >>

\* scaled = scaler.transform(...); pred_class = model.predict(...);
\* proba = model.predict_proba(...).  An exception of the engine leaves predict.
Score(r) ==
    /\ pc[r] = "validated"
    /\ engine_calls' = [engine_calls EXCEPT ![r] = Append(@, feature_vector[r])]
    /\ LET S == transform(scaler, feature_vector[r])
       IN  IF engine_raises(model, S)
           THEN /\ response' = [response EXCEPT ![r] = ExceptionResponse]
                /\ pc' = [pc EXCEPT ![r] = "done"]
                /\ UNCHANGED << scaled, pred_class, proba, steps >>
           ELSE /\ scaled' = [scaled EXCEPT ![r] = S]
                /\ pred_class' = [pred_class EXCEPT ![r] = predict_class(model, S)]
                /\ proba' = [proba EXCEPT ![r] = predict_proba(model, S)]
                /\ steps' = [steps EXCEPT ![r] = Append(@, "scored")]
                /\ pc' = [pc EXCEPT ![r] = "scored"]
                /\ UNCHANGED response
    /\ UNCHANGED << shared, body, feature_vector, errors, confidence_pct,
                    confidence_label, resubmitted, first_vector >>

\* The confidence bucket.
Classify(r) ==
    /\ pc[r] = "scored"
    /\ confidence_pct' = [confidence_pct EXCEPT ![r] = ConfidencePct(pred_class[r], proba[r])]
    /\ confidence_label' =
          [confidence_label EXCEPT ![r] = ConfidenceLabel(ConfidencePct(pred_class[r], proba[r]))]
    /\ steps' = [steps EXCEPT ![r] = Append(@, "classified")]
    /\ pc' = [pc EXCEPT ![r] = "classified"]
    /\ UNCHANGED << shared, body, feature_vector, errors, scaled, pred_class, proba,
                    response, engine_calls, resubmitted, first_vector >>

\* return jsonify({...}), 200
Assemble(r) ==
    /\ pc[r] = "classified"
    /\ response' = [response EXCEPT ![r] =
          PredictionResponse(feature_names, metrics_data, feature_vector[r],
                             pred_class[r], proba[r], confidence_pct[r],
                             confidence_label[r])]
    /\ steps' = [steps EXCEPT ![r] = Append(@, "assembled")]
    /\ pc' = [pc EXCEPT ![r] = "done"]
    /\ UNCHANGED << shared, body, feature_vector, errors, scaled, pred_class, proba,
                    confidence_pct, confidence_label, engine_calls, resubmitted,
                    first_vector >>

\* predict run from start to end with nothing else running.
PredictAlone(rules, names, m, sc, metrics, b) ==
    IF IsNone(b) \/ ~Truthy(b) THEN MalformedResponse
    ELSE IF ~IsDict(b) THEN ExceptionResponse
    ELSE LET res == validate_input(rules, names, b.fields)
             S   == transform(sc, res.vector)
             cls == predict_class(m, S)
             p   == predict_proba(m, S)
             pct == ConfidencePct(cls, p)
         IN  IF res.exc # "none" THEN ExceptionResponse
             ELSE IF res.errors # << >> THEN ErrorsResponse(res.errors)
             ELSE IF engine_raises(m, S) THEN ExceptionResponse
             ELSE PredictionResponse(names, metrics, res.vector, cls, p, pct,
                                     ConfidenceLabel(pct))

\* ------------------------------------------------------ specifications
\* One request (and its re-submission), every engine, every kind of body.
Init == InitWith(Engines)
Next ==
    \/ Receive(1, BodiesP)
    \/ Resubmit(1)
    \/ Validate(1)
    \/ Score(1)
    \/ Classify(1)
    \/ Assemble(1)
Spec == Init /\ [][Next]_vars

\* validate_input over a wide set of payload objects.
InitV == InitWith(EnginesV)
NextV ==
    \/ Receive(1, BodiesV)
    \/ Resubmit(1)
    \/ Validate(1)
    \/ Score(1)
    \/ Classify(1)
    \/ Assemble(1)
SpecV == InitV /\ [][NextV]_vars

\* NumRequests requests served concurrently, interleaved step by step.
InitC == InitWith(EnginesC)
NextC ==
    \E r \in Requests :
        \/ Receive(r, BodiesC)
        \/ Validate(r)
        \/ Score(r)
        \/ Classify(r)
        \/ Assemble(r)
SpecC == InitC /\ [][NextC]_vars

\* ------------------------------------------------------------ claims
Has(seq, x) == \E i \in DOMAIN seq : seq[i] = x
IsPrefix(a, b) == Len(a) <= Len(b) /\ \A i \in DOMAIN a : a[i] = b[i]
Pipeline == << "received", "validated", "scored", "classified", "assembled" >>

\* validate_input was called on the request's object and has ended.
ValidateRan(r) ==
    IsDict(body[r]) /\ Truthy(body[r]) /\ pc[r] \notin {"start", "received"}
\* validate_input returned (it did not raise).
ValidateReturned(r) == pc[r] \notin {"start", "received"} /\ Has(steps[r], "validated")

ErrorFields(errs) == [i \in DOMAIN errs |-> errs[i].field]

\* The statement's reading of a field value: whether it is a number, and
\* whether the number lies outside [min, max].  A fractional Age (33.5 or
\* "33.5") is left open here: it is what C3 is about.
StatedNumeric(x) ==
    x.k \in {"int", "float", "strint", "strdec", "bool", "bigint", "inf"}
StatedOutOfRange(rule, x) ==
    x.k \in {"bigint", "inf"} \/ x.v < rule.min \/ x.v > rule.max
StatedBad(rule, x) ==
    x.k \in {"absent", "null"} \/ ~StatedNumeric(x) \/ StatedOutOfRange(rule, x)
LeftOpen(rule, x) ==
    rule.type = "int" /\ ((x.k = "float" /\ x.v % Unit # 0) \/ x.k = "strdec")
Position(names, f) == CHOOSE i \in DOMAIN names : names[i] = f

\* C1: for every payload object validate_input returns, and its error list
\* holds exactly one error for each field that is missing, not a number or
\* out of range, none for any other field, in registry order; a vector (of
\* eight values) is returned exactly when the list is empty.
C1_CompleteErrorList ==
    \A r \in Requests :
        ValidateRan(r) =>
            /\ ValidateReturned(r)
            /\ \A f \in Fields :
                  LET x == body[r].fields[f]
                  IN  ~LeftOpen(FieldRulesInit[f], x) =>
                         (Has(ErrorFields(errors[r]), f) <=> StatedBad(FieldRulesInit[f], x))
            /\ \A i, j \in DOMAIN errors[r] :
                  i < j => Position(FeatureNamesInit, errors[r][i].field)
                              < Position(FeatureNamesInit, errors[r][j].field)
            /\ (\A f \in Fields : body[r].fields[f] = Absent) =>
                  ErrorFields(errors[r]) = FeatureNamesInit
            /\ (errors[r] = << >>) <=> (Len(feature_vector[r]) = Len(FeatureNamesInit))
            /\ (errors[r] # << >>) => feature_vector[r] = << >>

\* C2: a JSON number equal to a field's min or max is accepted, and every
\* JSON number strictly below min or strictly above max gets that field's
\* 'must be between' error, for all eight fields, Age included.
C2_InclusiveBounds ==
    \A r \in Requests : \A f \in Fields :
        LET x    == body[r].fields[f]
            rule == FieldRulesInit[f]
        IN  (ValidateReturned(r) /\ x.k \in {"int", "float"}) =>
              /\ (x.v = rule.min \/ x.v = rule.max) => ~Has(ErrorFields(errors[r]), f)
              /\ (x.v < rule.min \/ x.v > rule.max) => Has(errors[r], Err(f, "between"))

\* C3: an Age that is a non-integral JSON number or a string that is no
\* integer literal gets an error for Age and reaches no feature vector;
\* the other seven fields keep their fraction.
C3_AgeIntegral ==
    \A r \in Requests :
        LET x == body[r].fields["Age"]
        IN  ValidateReturned(r) =>
              /\ ((x.k = "float" /\ x.v % Unit # 0) \/ x.k = "strdec") =>
                    (Has(ErrorFields(errors[r]), "Age") /\ feature_vector[r] = << >>)
              /\ \A i \in 1..7 :
                    LET y == body[r].fields[FeatureNamesInit[i]]
                    IN  (errors[r] = << >> /\ y.k \in {"float", "strdec"}) =>
                            feature_vector[r][i] = y.v

\* C4: the MalformedRequest response is given if and only if the body is
\* absent or is not JSON; every body that is a JSON object, the empty object
\* included, is validated and answered with the errors list or a prediction
\* (or fails in the engine).
C4_MalformedIffNotJson ==
    \A r \in Requests :
        (pc[r] = "done" /\ ~resubmitted[r]) =>
            /\ (response[r].kind = "error") <=> (body[r].kind \in {"absent", "invalid"})
            /\ (body[r].kind = "object") =>
                  \/ response[r].kind \in {"errors", "prediction"}
                  \/ response[r].kind = "exception" /\ engine_calls[r] # << >>

\* C5: the score is p for a positive label and 1 - p for a negative one, and
\* the bucket is High exactly from 0.80 up, Moderate exactly in [0.60, 0.80),
\* Low exactly below 0.60.
C5_ConfidenceBuckets ==
    \A r \in Requests :
        Has(steps[r], "classified") =>
            LET s == confidence_pct[r]
                l == confidence_label[r]
            IN  /\ proba[r] \in 0..100000
                /\ pred_class[r] = 1 => s = proba[r]
                /\ pred_class[r] = 0 => s = 100000 - proba[r]
                /\ l \in {"High", "Moderate", "Low"}
                /\ (l = "High") <=> (s >= 80000)
                /\ (l = "Moderate") <=> (60000 <= s /\ s < 80000)
                /\ (l = "Low") <=> (s < 60000)
                /\ (s = 80000) => l = "High"
                /\ (s = 79990) => l = "Moderate"
                /\ (s = 60000) => l = "Moderate"
                /\ (s = 59990) => l = "Low"

C5_Witness ==
    \E r \in Requests :
        /\ pc[r] = "classified"
        /\ pred_class[r] = 0 /\ proba[r] = 20000
        /\ confidence_pct[r] = 80000 /\ confidence_label[r] = "High"

\* The example input answered by a classifier that predicts the negative
\* class with positive-class probability 0.10.
C6_Case(r) ==
    /\ pc[r] = "done" /\ response[r].kind = "prediction"
    /\ body[r] = Object(ExampleFields, FALSE)
    /\ pred_class[r] = 0 /\ proba[r] = 10000

\* C6 as stated: that response is diabetic:false, confidence "Low",
\* confidence_score 0.9.
C6_AsStated ==
    \A r \in Requests :
        C6_Case(r) =>
            /\ response[r].diabetic = FALSE
            /\ response[r].confidence = "Low"
            /\ response[r].confidence_score = 90000

\* C6 amended: that response is diabetic:false, confidence "High",
\* confidence_score 0.9.
C6_ExampleIsHigh ==
    \A r \in Requests :
        C6_Case(r) =>
            /\ response[r].diabetic = FALSE
            /\ response[r].prediction = "Not Diabetic"
            /\ response[r].confidence = "High"
            /\ response[r].confidence_score = 90000
            /\ response[r].probability = 10000

C6_Witness == \E r \in Requests : C6_Case(r) /\ ~resubmitted[r]

\* C7: re-submitting the input_features of a successful response is not
\* refused as malformed, passes validation with no error and builds the
\* vector of the original request, element by element.
C7_RoundTrip ==
    \A r \in Requests :
        resubmitted[r] =>
            /\ pc[r] # "start"
            /\ pc[r] # "received" =>
                  /\ ValidateReturned(r)
                  /\ errors[r] = << >>
                  /\ response[r].kind \notin {"error", "errors"}
                  /\ Len(feature_vector[r]) = Len(FeatureNamesInit)
                  /\ feature_vector[r] = first_vector[r]

C7_Witness ==
    \E r \in Requests :
        /\ resubmitted[r] /\ pc[r] = "validated"
        /\ body[r].fields["Age"] = Val("float", 3300)
        /\ feature_vector[r] = first_vector[r]
        /\ Len(feature_vector[r]) = 8

InRangeVector(v) ==
    /\ Len(v) = Len(FeatureNamesInit)
    /\ \A i \in DOMAIN v :
          /\ FieldRulesInit[FeatureNamesInit[i]].min <= v[i]
          /\ v[i] <= FieldRulesInit[FeatureNamesInit[i]].max

\* C8: the steps of a request are a prefix of received, validated, scored,
\* classified, assembled; the engine is called at most once, only after a
\* validation without errors and only with eight in-range values; a request
\* with errors stops there; a prediction is returned only after all five
\* steps, with no validation error and no failure of the engine.
C8_Pipeline ==
    \A r \in Requests :
        /\ IsPrefix(steps[r], Pipeline)
        /\ Len(engine_calls[r]) <= 1
        /\ engine_calls[r] # << >> =>
              /\ Has(steps[r], "validated")
              /\ errors[r] = << >>
              /\ engine_calls[r][1] = feature_vector[r]
              /\ InRangeVector(engine_calls[r][1])
        /\ errors[r] # << >> =>
              /\ steps[r] = << "received", "validated" >>
              /\ pc[r] = "done" /\ response[r].kind = "errors"
              /\ response[r].errors = errors[r]
        /\ response[r].kind = "prediction" =>
              /\ steps[r] = Pipeline /\ pc[r] = "done"
              /\ errors[r] = << >>
              /\ Len(engine_calls[r]) = 1
              /\ ~engine_raises(model, transform(scaler, feature_vector[r]))
        /\ (pc[r] = "done" /\ steps[r] # Pipeline) => response[r].kind # "prediction"

C8_Witness ==
    \E r \in Requests :
        /\ pc[r] = "done" /\ response[r].kind = "exception"
        /\ steps[r] = << "received", "validated" >>
        /\ Len(engine_calls[r]) = 1

\* C9: no step of any request writes FIELD_RULES, feature_names, model,
\* scaler or metrics_data, and the response of every finished request is the
\* one its own body gets when predict runs alone (so equal bodies get equal
\* responses), whatever the other requests do in between.
C9_Isolation ==
    /\ [][UNCHANGED shared]_vars
    /\ [](\A r \in Requests :
            pc[r] = "done" =>
                response[r] = PredictAlone(FieldRulesInit, FeatureNamesInit, model,
                                           ScalerInit, MetricsInit, body[r]))

C9_Witness ==
    \E r1, r2 \in Requests :
        /\ r1 # r2
        /\ pc[r1] = "done" /\ response[r1].kind = "prediction"
        /\ pc[r2] = "scored"
        /\ body[r1] # body[r2]

\* C10: in a successful response the bucket agrees with the reported
\* (rounded) confidence_score: High iff score >= 0.80, Moderate iff
\* 0.60 <= score < 0.80, Low iff score < 0.60.
C10_BucketMatchesReportedScore ==
    \A r \in Requests :
        (pc[r] = "done" /\ response[r].kind = "prediction") =>
            LET s == response[r].confidence_score
                l == response[r].confidence
            IN  /\ (l = "High") <=> (s >= 80000)
                /\ (l = "Moderate") <=> (60000 <= s /\ s < 80000)
                /\ (l = "Low") <=> (s < 60000)

=============================================================================
